---- MODULE Spec2Model ----
(***************************************************************************)
(* Model of the validation-rule compiler of my-react-app:                  *)
(*   src/validation/buildYupSchema.ts   (rule resolution and validators)   *)
(*   src/validation/holidays.ts         (weekend / holiday calendar)       *)
(*   src/validation/validationConfigLoader.ts (rule document, definitions, *)
(*                                       the asynchronous loader)          *)
(*   src/components/WireTransferForm.tsx (loading the rules on mount)      *)
(*                                                                         *)
(* JavaScript strings are modelled as sequences of one-character strings,  *)
(* message texts as sequences of text fragments, numbers as integers in    *)
(* hundredths (0.01 is 1, 1000000 is 100000000), calendar dates as day     *)
(* numbers since 1970-01-01, and an optional attribute of a rule as a      *)
(* sequence of length 0 (not set) or 1 (set).                              *)
(***************************************************************************)
EXTENDS Integers, Sequences, FiniteSets, TLC

VARIABLES configSection, definitions, schema, today, result, earlier,
          fetch, validationSetup, load, isLoadingConfig, configError,
          formConfigSection

\* the promises of the loader and the state of WireTransferForm
formVars ==
  <<fetch, validationSetup, load, isLoadingConfig, configError, formConfigSection>>

vars == <<configSection, definitions, schema, today, result, earlier, formVars>>

(***************************************************************************)
(* Bounds of the model.                                                    *)
(***************************************************************************)
MaxLen == 2
MaxFields == 3
MaxTicks == 2

(***************************************************************************)
(* Optional attributes.                                                    *)
(***************************************************************************)
Absent == <<>>
Some(v) == <<v>>
Has(o) == o # <<>>
Val(o) == o[1]

(***************************************************************************)
(* Strings.                                                                *)
(***************************************************************************)
Digits == {"0", "1", "2", "3", "4", "5", "6", "7", "8", "9"}

DigitVal(c) ==
  CASE c = "0" -> 0 [] c = "1" -> 1 [] c = "2" -> 2 [] c = "3" -> 3
    [] c = "4" -> 4 [] c = "5" -> 5 [] c = "6" -> 6 [] c = "7" -> 7
    [] c = "8" -> 8 [] c = "9" -> 9

DigitChar(n) ==
  CASE n = 0 -> "0" [] n = 1 -> "1" [] n = 2 -> "2" [] n = 3 -> "3"
    [] n = 4 -> "4" [] n = 5 -> "5" [] n = 6 -> "6" [] n = 7 -> "7"
    [] n = 8 -> "8" [] n = 9 -> "9"

Upper == {"A", "B", "C", "D", "E", "F", "G", "H", "I", "J", "K", "L", "M",
          "N", "O", "P", "Q", "R", "S", "T", "U", "V", "W", "X", "Y", "Z"}

ToLower(c) ==
  CASE c = "A" -> "a" [] c = "B" -> "b" [] c = "C" -> "c" [] c = "D" -> "d"
    [] c = "E" -> "e" [] c = "F" -> "f" [] c = "G" -> "g" [] c = "H" -> "h"
    [] c = "I" -> "i" [] c = "J" -> "j" [] c = "K" -> "k" [] c = "L" -> "l"
    [] c = "M" -> "m" [] c = "N" -> "n" [] c = "O" -> "o" [] c = "P" -> "p"
    [] c = "Q" -> "q" [] c = "R" -> "r" [] c = "S" -> "s" [] c = "T" -> "t"
    [] c = "U" -> "u" [] c = "V" -> "v" [] c = "W" -> "w" [] c = "X" -> "x"
    [] c = "Y" -> "y" [] c = "Z" -> "z" [] OTHER -> c

IsSpace(c) == c = " "

AllDigits(s) == \A i \in 1..Len(s) : s[i] \in Digits

\* String.prototype.trim
Trim(s) ==
  LET kept == {i \in 1..Len(s) : ~IsSpace(s[i])}
  IN IF kept = {} THEN <<>>
     ELSE SubSeq(s, CHOOSE i \in kept : \A j \in kept : i <= j,
                    CHOOSE i \in kept : \A j \in kept : i >= j)

\* s.replace(/\s/g, '')
StripSpaces(s) == SelectSeq(s, LAMBDA c : ~IsSpace(c))

Repeat(c, n) == [i \in 1..n |-> c]

RECURSIVE NatToStr(_)
NatToStr(n) ==
  IF n < 10 THEN <<DigitChar(n)>> ELSE NatToStr(n \div 10) \o <<DigitChar(n % 10)>>

RECURSIVE StrToNat(_)
StrToNat(s) ==
  IF s = <<>> THEN 0 ELSE 10 * StrToNat(SubSeq(s, 1, Len(s) - 1)) + DigitVal(s[Len(s)])

(***************************************************************************)
(* Candidate raw values: what a caller may hand to a compiled validator.   *)
(* t is the JavaScript typeof-class, s the characters of a string, n the   *)
(* number in hundredths (or 1/0 for true/false).                           *)
(***************************************************************************)
Undefined == [t |-> "undefined", s |-> <<>>, n |-> 0]
Null == [t |-> "null", s |-> <<>>, n |-> 0]
Str(s) == [t |-> "string", s |-> s, n |-> 0]
Num(n) == [t |-> "number", s |-> <<>>, n |-> n]
Bool(b) == [t |-> "boolean", s |-> <<>>, n |-> IF b THEN 1 ELSE 0]
Obj == [t |-> "object", s |-> <<>>, n |-> 0]

IsNullish(v) == v.t \in {"null", "undefined"}

\* String(n) for a number held in hundredths
NumToString(n) ==
  LET a == IF n < 0 THEN 0 - n ELSE n
      whole == NatToStr(a \div 100)
      frac == a % 100
      digits == IF frac = 0 THEN whole
                ELSE IF frac % 10 = 0 THEN whole \o <<".", DigitChar(frac \div 10)>>
                ELSE whole \o <<".", DigitChar(frac \div 10), DigitChar(frac % 10)>>
  IN IF n < 0 THEN <<"-">> \o digits ELSE digits

NaN == [nan |-> TRUE, n |-> 0]
Finite(n) == [nan |-> FALSE, n |-> n]

\* +s for a string without whitespace: decimal digits with at most two
\* fraction digits; every other text of the alphabet is NaN
StringToNumber(s) ==
  LET dot == {i \in 1..Len(s) : s[i] = "."}
  IN IF s = <<>> THEN NaN
     ELSE IF AllDigits(s) THEN Finite(100 * StrToNat(s))
     ELSE IF Cardinality(dot) = 1
       THEN LET i == CHOOSE j \in dot : TRUE
                w == SubSeq(s, 1, i - 1)
                f == SubSeq(s, i + 1, Len(s))
            IN IF AllDigits(w) /\ AllDigits(f) /\ w \o f # <<>> /\ Len(f) <= 2
                 THEN Finite(100 * StrToNat(w)
                             + (IF Len(f) = 1 THEN 10 * StrToNat(f) ELSE StrToNat(f)))
                 ELSE NaN
     ELSE NaN

(***************************************************************************)
(* The casts yup applies before it tests a value (validateSync is called   *)
(* without strict, so string() and number() coerce).                       *)
(***************************************************************************)
\* yup string(): a number or a boolean is turned into its text, an object
\* (whose toString() is "[object Object]") is left as it is
StringCast(v) ==
  CASE v.t = "string" -> v
    [] v.t = "number" -> Str(NumToString(v.n))
    [] v.t = "boolean" -> Str(IF v.n = 1 THEN <<"t", "r", "u", "e">>
                                         ELSE <<"f", "a", "l", "s", "e">>)
    [] OTHER -> v

\* yup number(): whitespace is removed from a string, '' is NaN, the rest
\* is +string; a boolean or an object goes through parseFloat, which is NaN
NumberCast(v) ==
  CASE v.t = "number" -> Finite(v.n)
    [] v.t = "string" -> StringToNumber(StripSpaces(v.s))
    [] OTHER -> NaN

(***************************************************************************)
(* Rules (JsonRule).  Every attribute is optional; "ref" is the $ref.      *)
(***************************************************************************)
Attrs ==
  {"ref", "type", "required", "minLength", "maxLength", "pattern",
   "allowedValues", "minValue", "maxValue", "customRule", "minDate",
   "errorMessageRequired", "errorMessageMinLength", "errorMessageMaxLength",
   "errorMessagePattern", "errorMessageAllowedValues", "errorMessageType",
   "errorMessageMinValue", "errorMessageMaxValue", "errorMessageMinDate",
   "errorMessageCustomRule"}

EmptyRule == [a \in Attrs |-> Absent]

\* JavaScript truthiness of an optional boolean attribute, and of an
\* optional text attribute ('' is falsy)
Truthy(o) == Has(o) /\ Val(o) # FALSE
NonEmpty(o) == Has(o) /\ Val(o) # <<>>

\* o || fallback, for a message attribute
OrElse(o, fallback) == IF NonEmpty(o) THEN Val(o) ELSE fallback

(***************************************************************************)
(* $ref resolution (buildYupSchema, the head of the loop body).            *)
(***************************************************************************)
\* template.replace(token, replacement) with a string token: JavaScript
\* replaces the first occurrence only
RECURSIVE Replace(_, _, _)
Replace(template, token, replacement) ==
  IF template = <<>> THEN <<>>
  ELSE IF Head(template) = token THEN replacement \o Tail(template)
  ELSE <<Head(template)>> \o Replace(Tail(template), token, replacement)

\* rules.$ref.replace('#/definitions/', ''); a $ref is held as fragments,
\* the prefix and the name of the definition
RefPath(ref) ==
  LET rest == Replace(ref, "#/definitions/", <<>>)
  IN IF rest = <<>> THEN "" ELSE Head(rest)

\* { ...definition, ...rules }: the field rule's attributes win
SpreadDefinitionWins(definition, rules) ==
  [a \in Attrs |-> IF Has(definition[a]) THEN definition[a] ELSE rules[a]]

Spread(definition, rules) ==
  [a \in Attrs |-> IF Has(rules[a]) THEN rules[a] ELSE definition[a]]

\* delete rules.$ref
DeleteRef(rules) == [rules EXCEPT !["ref"] = Absent]

\* definitions[refPath] is truthy
DefinitionFoundAlways(defs, refPath) == TRUE

DefinitionFound(defs, refPath) == refPath \in DOMAIN defs

\* the rule a field is compiled from; Absent when the field is skipped
\* (console.warn and continue).  Spreading a definition that is not there
\* adds no attribute.
Resolve(rawRule, defs) ==
  IF NonEmpty(rawRule["ref"])
    THEN LET refPath == RefPath(Val(rawRule["ref"]))
         IN IF DefinitionFound(defs, refPath)
              THEN Some(DeleteRef(Spread(IF refPath \in DOMAIN defs
                                           THEN defs[refPath] ELSE EmptyRule,
                                         rawRule)))
              ELSE Absent
    ELSE Some(rawRule)

\* The loop of buildYupSchema: schemaObjectShape as the sequence of
\* compiled fields, in the order of the document.  A compiled field is held
\* as its name and the resolved rule its validator closes over.
RECURSIVE BuildShape(_, _)
BuildShape(section, defs) ==
  IF section = <<>> THEN <<>>
  ELSE LET field == Head(section)
           rules == Resolve(field.rule, defs)
           rest == BuildShape(Tail(section), defs)
       IN IF Has(rules)
            THEN <<[name |-> field.name, rules |-> Val(rules)]>> \o rest
            ELSE rest

buildYupSchema(section, defs) == BuildShape(section, defs)

\* a loop body that resolves the document's own rule in place, without
\* the copy of line 49
FieldAfterBuildInPlace(field, defs) ==
  IF Has(Resolve(field.rule, defs))
    THEN [field EXCEPT !.rule = Val(Resolve(field.rule, defs))]
    ELSE field

\* What a call leaves in the document's rule of a field.  The loop body
\* works on rules = { ...configSection[fieldName] }, a new object; the
\* merge assigns another new object to rules and delete rules.$ref acts
\* on that one, so no write reaches the document's rule.
FieldAfterBuild(field, defs) == field

\* the rule document after the call
SectionAfterBuild(section, defs) ==
  [i \in 1..Len(section) |-> FieldAfterBuild(section[i], defs)]

\* the definitions after the call: a definition is only read, as the
\* source of the spread { ...definitions[refPath], ...rules }
DefinitionsAfterBuild(section, defs) == defs

(***************************************************************************)
(* Validation outcomes.  kind names the check that produced the message.   *)
(***************************************************************************)
Pass == [ok |-> TRUE, kind |-> "", message |-> <<>>]
Fail(kind, message) == [ok |-> FALSE, kind |-> kind, message |-> message]

\* allowedValues.join(', ')
RECURSIVE Join(_)
Join(values) ==
  IF values = <<>> THEN <<>>
  ELSE IF Len(values) = 1 THEN Head(values)
  ELSE Head(values) \o <<", ">> \o Join(Tail(values))

\* fieldName.replace(/([A-Z])/g, ' $1').toLowerCase()
RECURSIVE SpacedLower(_)
SpacedLower(name) ==
  IF name = <<>> THEN <<>>
  ELSE (IF Head(name) \in Upper THEN <<" ", ToLower(Head(name))>>
                                ELSE <<ToLower(Head(name))>>)
       \o SpacedLower(Tail(name))

requiredMessage(fieldName, rules) ==
  OrElse(rules["errorMessageRequired"], SpacedLower(fieldName) \o <<" is required">>)

(***************************************************************************)
(* Regular expressions.  A pattern is held as one fragment, its source     *)
(* text; the patterns of the rule documents are ^[0-9]{lo,hi}$.            *)
(***************************************************************************)
RegExpTable ==
  [p \in {"^[0-9]{9}$", "^[0-9]{8,17}$", "^[0-9]{2}$"} |->
     CASE p = "^[0-9]{9}$" -> <<9, 9>>
       [] p = "^[0-9]{8,17}$" -> <<8, 17>>
       [] p = "^[0-9]{2}$" -> <<2, 2>>]

\* new RegExp(pattern) does not throw
RegExpValid(pattern) == Len(pattern) = 1 /\ pattern[1] \in DOMAIN RegExpTable

\* value.search(regex) !== -1
Matches(pattern, s) ==
  LET range == RegExpTable[pattern[1]]
  IN AllDigits(s) /\ Len(s) >= range[1] /\ Len(s) <= range[2]

(***************************************************************************)
(* Calendar dates.  A Date is held as valid/invalid and, when valid, the   *)
(* number of its local calendar day counted from 1970-01-01; the time of   *)
(* day never changes a comparison the validators make.                     *)
(***************************************************************************)
InvalidDate == [valid |-> FALSE, day |-> 0]
ValidDate(day) == [valid |-> TRUE, day |-> day]

IsLeap(y) == (y % 4 = 0 /\ y % 100 # 0) \/ y % 400 = 0

DaysInMonth(y, m) ==
  CASE m \in {1, 3, 5, 7, 8, 10, 12} -> 31
    [] m \in {4, 6, 9, 11} -> 30
    [] OTHER -> IF IsLeap(y) THEN 29 ELSE 28

\* day number of the civil date y-m-d
DaysFromCivil(y, m, d) ==
  LET yy == IF m <= 2 THEN y - 1 ELSE y
      era == yy \div 400
      yoe == yy - era * 400
      mp == IF m > 2 THEN m - 3 ELSE m + 9
      doy == (153 * mp + 2) \div 5 + d - 1
      doe == yoe * 365 + yoe \div 4 - yoe \div 100 + doy
  IN era * 146097 + doe - 719468

\* the civil date <<y, m, d>> of a day number
CivilFromDays(day) ==
  LET z == day + 719468
      era == z \div 146097
      doe == z - era * 146097
      yoe == (doe - doe \div 1460 + doe \div 36524 - doe \div 146096) \div 365
      doy == doe - (365 * yoe + yoe \div 4 - yoe \div 100)
      mp == (5 * doy + 2) \div 153
      d == doy - (153 * mp + 2) \div 5 + 1
      m == IF mp < 10 THEN mp + 3 ELSE mp - 9
  IN <<IF m <= 2 THEN yoe + era * 400 + 1 ELSE yoe + era * 400, m, d>>

\* Date.prototype.getDay: Sunday is 0, Saturday is 6
GetDay(day) == (day + 4) % 7

Pad(n, width) ==
  LET s == NatToStr(n) IN Repeat("0", width - Len(s)) \o s

\* format(date, 'yyyy-MM-dd')
FormatDate(day) ==
  LET c == CivilFromDays(day)
  IN Pad(c[1], 4) \o <<"-">> \o Pad(c[2], 2) \o <<"-">> \o Pad(c[3], 2)

\* the date part of parseISO: CC | YYYY, followed by nothing, [-]MM,
\* [-]MM[-]DD or [-]DDD
ParseDatePart(s) ==
  LET century == Len(s) = 2 /\ AllDigits(s)
      full == Len(s) >= 4 /\ AllDigits(SubSeq(s, 1, 4))
      y == IF century THEN 100 * StrToNat(s) ELSE StrToNat(SubSeq(s, 1, 4))
      rest0 == IF century THEN <<>> ELSE SubSeq(s, 5, Len(s))
      r == IF rest0 # <<>> /\ Head(rest0) = "-" THEN Tail(rest0) ELSE rest0
      civil(m, d) ==
        IF m >= 1 /\ m <= 12 /\ d >= 1 /\ d <= DaysInMonth(y, m)
          THEN ValidDate(DaysFromCivil(y, m, d)) ELSE InvalidDate
  IN IF ~(century \/ full) THEN InvalidDate
     ELSE IF r = <<>> THEN civil(1, 1)
     ELSE IF AllDigits(r) /\ Len(r) = 2 THEN civil(StrToNat(r), 1)
     ELSE IF AllDigits(r) /\ Len(r) = 3
       THEN IF StrToNat(r) >= 1 /\ StrToNat(r) <= (IF IsLeap(y) THEN 366 ELSE 365)
              THEN ValidDate(DaysFromCivil(y, 1, 1) + StrToNat(r) - 1)
              ELSE InvalidDate
     ELSE IF AllDigits(r) /\ Len(r) = 4
       THEN civil(StrToNat(SubSeq(r, 1, 2)), StrToNat(SubSeq(r, 3, 4)))
     ELSE IF Len(r) = 5 /\ r[3] = "-" /\ AllDigits(SubSeq(r, 1, 2))
             /\ AllDigits(SubSeq(r, 4, 5))
       THEN civil(StrToNat(SubSeq(r, 1, 2)), StrToNat(SubSeq(r, 4, 5)))
     ELSE InvalidDate

\* the time part of parseISO, hh[mm[ss]] in digits: the days it adds to
\* the date (24:00 is the next day), or -1 when it is no time
ParseTimePart(s) ==
  LET part(i) == IF Len(s) >= 2 * i THEN StrToNat(SubSeq(s, 2 * i - 1, 2 * i)) ELSE 0
  IN IF ~(AllDigits(s) /\ Len(s) \in {2, 4, 6}) THEN 0 - 1
     ELSE IF part(1) = 24 THEN (IF part(2) = 0 /\ part(3) = 0 THEN 1 ELSE 0 - 1)
     ELSE IF part(1) < 24 /\ part(2) < 60 /\ part(3) < 60 THEN 0
     ELSE 0 - 1

\* parseISO(value): the text is split at "T" or " " into a date and a time
ParseISO(s) ==
  LET seps == {i \in 1..Len(s) : s[i] \in {"T", " "}}
  IN IF Cardinality(seps) > 1 THEN InvalidDate
     ELSE IF seps = {} THEN ParseDatePart(s)
     ELSE LET i == CHOOSE j \in seps : TRUE
              date == ParseDatePart(SubSeq(s, 1, i - 1))
              time == SubSeq(s, i + 1, Len(s))
          IN IF ~date.valid \/ time = <<>> THEN date
             ELSE IF ParseTimePart(time) < 0 THEN InvalidDate
             ELSE ValidDate(date.day + ParseTimePart(time))

(***************************************************************************)
(* holidays.ts                                                             *)
(***************************************************************************)
US_HOLIDAYS_2025_STRINGS ==
  << <<"2","0","2","5","-","0","1","-","0","1">>,
     <<"2","0","2","5","-","0","1","-","2","0">>,
     <<"2","0","2","5","-","0","2","-","1","7">>,
     <<"2","0","2","5","-","0","5","-","2","6">>,
     <<"2","0","2","5","-","0","6","-","1","9">>,
     <<"2","0","2","5","-","0","7","-","0","4">>,
     <<"2","0","2","5","-","0","9","-","0","1">>,
     <<"2","0","2","5","-","1","0","-","1","3">>,
     <<"2","0","2","5","-","1","1","-","1","1">>,
     <<"2","0","2","5","-","1","1","-","2","7">>,
     <<"2","0","2","5","-","1","2","-","2","5">> >>

US_HOLIDAYS_2025 ==
  [i \in 1..Len(US_HOLIDAYS_2025_STRINGS) |-> ParseISO(US_HOLIDAYS_2025_STRINGS[i])]

isPublicHoliday(date) ==
  IF ~date.valid THEN FALSE
  ELSE LET dateToCheck == ParseISO(FormatDate(date.day))
       IN IF ~dateToCheck.valid THEN FALSE
          ELSE \E i \in 1..Len(US_HOLIDAYS_2025) :
                 US_HOLIDAYS_2025[i].valid /\ US_HOLIDAYS_2025[i].day = dateToCheck.day

isWeekendSaturdayOnly(date) == date.valid /\ GetDay(date.day) = 6

isWeekend(date) ==
  IF ~date.valid THEN FALSE
  ELSE GetDay(date.day) = 0 \/ GetDay(date.day) = 6

(***************************************************************************)
(* Compiled validators (buildYupSchema, the switch on rules.type).         *)
(***************************************************************************)
\* the transform of a string field: the value counts as missing
StringAbsentNoTrim(value) ==
  (value.t = "string" /\ value.s = <<>>) \/ IsNullish(value)

StringAbsent(value) ==
  (value.t = "string" /\ Trim(value.s) = <<>>) \/ IsNullish(value)

\* the transform of a number, date or unsupported field
OtherAbsent(value) ==
  (value.t = "string" /\ value.s = <<>>) \/ IsNullish(value)

\* mixed().transform(...).required(requiredMessage) / .nullable()
OnAbsentAlwaysFail(fieldName, rules) == Fail("required", requiredMessage(fieldName, rules))

OnAbsent(fieldName, rules) ==
  IF Truthy(rules["required"])
    THEN Fail("required", requiredMessage(fieldName, rules))
    ELSE Pass

\* the message of a constraint: the rule's template or the built-in one,
\* with the placeholder replaced by the constraint's value
Render(rules, attr, fallback, token, text) ==
  Replace(OrElse(rules[attr], fallback), token, text)

\* tempStringValidator.validateSync(trimmedValue): yup runs the type check,
\* then the oneOf whitelist, then the tests min, max, matches in the order
\* they were added, and stops at the first failure (abortEarly)
StringSchema(rules, cast) ==
  IF cast.t # "string"
    THEN Fail("type", OrElse(rules["errorMessageType"],
                             <<"Invalid value, must be a string.">>))
  ELSE IF Has(rules["allowedValues"])
          /\ \A i \in 1..Len(Val(rules["allowedValues"])) :
               Val(rules["allowedValues"])[i] # cast.s
    THEN Fail("allowedValues",
              Render(rules, "errorMessageAllowedValues",
                     <<"Must be one of: ", "{allowedValues}">>,
                     "{allowedValues}", Join(Val(rules["allowedValues"]))))
  ELSE IF Has(rules["minLength"]) /\ Len(cast.s) < Val(rules["minLength"])
    THEN Fail("minLength",
              Render(rules, "errorMessageMinLength",
                     <<"Minimum length is ", "{minLength}">>,
                     "{minLength}", NatToStr(Val(rules["minLength"]))))
  ELSE IF Has(rules["maxLength"]) /\ Len(cast.s) > Val(rules["maxLength"])
    THEN Fail("maxLength",
              Render(rules, "errorMessageMaxLength",
                     <<"Maximum length is ", "{maxLength}">>,
                     "{maxLength}", NatToStr(Val(rules["maxLength"]))))
  ELSE IF NonEmpty(rules["pattern"]) /\ RegExpValid(Val(rules["pattern"]))
          /\ ~Matches(Val(rules["pattern"]), cast.s)
    THEN Fail("pattern", OrElse(rules["errorMessagePattern"], <<"Invalid format">>))
  ELSE Pass

\* the test without the try/catch around new RegExp: a pattern that does
\* not compile fails the value
StringTestBadPatternFails(rules, value) ==
  LET trimmedValue == IF value.t = "string" THEN Str(Trim(value.s)) ELSE value
  IN IF NonEmpty(rules["pattern"]) /\ ~RegExpValid(Val(rules["pattern"]))
       THEN Fail("pattern", <<"Invalid regular expression">>)
       ELSE StringSchema(rules, StringCast(trimmedValue))

\* the test is-string-and-valid-<field>, on a value that is not missing
StringTest(rules, value) ==
  LET trimmedValue == IF value.t = "string" THEN Str(Trim(value.s)) ELSE value
  IN StringSchema(rules, StringCast(trimmedValue))

StringValidator(fieldName, rules, value) ==
  IF StringAbsent(value) THEN OnAbsent(fieldName, rules)
  ELSE StringTest(rules, value)

\* the yup number schema of is-number-and-valid-<field>
MinValueOkStrict(n, minValue) == n > minValue

MinValueOk(n, minValue) == n >= minValue

MaxValueOk(n, maxValue) == n <= maxValue

NumberTest(rules, value) ==
  LET cast == NumberCast(value)
  IN IF cast.nan
       THEN Fail("type", OrElse(rules["errorMessageType"], <<"Must be a valid number">>))
     ELSE IF Has(rules["minValue"]) /\ ~MinValueOk(cast.n, Val(rules["minValue"]))
       THEN Fail("minValue",
                 Render(rules, "errorMessageMinValue",
                        <<"Minimum value is ", "{minValue}">>,
                        "{minValue}", NumToString(Val(rules["minValue"]))))
     ELSE IF Has(rules["maxValue"]) /\ ~MaxValueOk(cast.n, Val(rules["maxValue"]))
       THEN Fail("maxValue",
                 Render(rules, "errorMessageMaxValue",
                        <<"Maximum value is ", "{maxValue}">>,
                        "{maxValue}", NumToString(Val(rules["maxValue"]))))
     ELSE Pass

NumberValidator(fieldName, rules, value) ==
  IF OtherAbsent(value) THEN OnAbsent(fieldName, rules)
  ELSE NumberTest(rules, value)

\* the test is-date-and-valid-<field>; now is startOfDay(new Date())
DateTest(rules, value, now) ==
  IF value.t # "string"
    THEN Fail("type", OrElse(rules["errorMessageType"],
                             <<"Date must be a valid string input.">>))
  ELSE LET parsedDate == ParseISO(value.s)
       IN IF ~parsedDate.valid
            THEN Fail("type", OrElse(rules["errorMessageType"],
                                     <<"Please enter a valid date.">>))
          ELSE IF rules["customRule"] = Some("noWeekendOrHoliday")
                  /\ (isWeekend(parsedDate) \/ isPublicHoliday(parsedDate))
            THEN Fail("customRule",
                      OrElse(rules["errorMessageCustomRule"],
                             <<"Date cannot be a weekend or public holiday.">>))
          ELSE IF rules["minDate"] = Some("today") /\ parsedDate.day < now
            THEN Fail("minDate", OrElse(rules["errorMessageMinDate"],
                                        <<"Date cannot be in the past.">>))
          ELSE Pass

\* a date validator that compares with the clock whether or not the rule
\* has minDate
DateValidatorAlwaysMinDate(fieldName, rules, value, now) ==
  IF OtherAbsent(value) THEN OnAbsent(fieldName, rules)
  ELSE DateTest([rules EXCEPT !["minDate"] = Some("today")], value, now)

DateValidator(fieldName, rules, value, now) ==
  IF OtherAbsent(value) THEN OnAbsent(fieldName, rules)
  ELSE DateTest(rules, value, now)

\* a default branch that falls back to the string checks
MixedValidatorAsString(fieldName, rules, value) ==
  StringValidator(fieldName, rules, value)

\* default: an unsupported type, only required / nullable
MixedValidator(fieldName, rules, value) ==
  IF OtherAbsent(value) THEN OnAbsent(fieldName, rules) ELSE Pass

\* the validator compiled for a field, applied to a candidate value
Validator(fieldName, rules, value, now) ==
  CASE rules["type"] = Some("string") -> StringValidator(fieldName, rules, value)
    [] rules["type"] = Some("number") -> NumberValidator(fieldName, rules, value)
    [] rules["type"] = Some("date") -> DateValidator(fieldName, rules, value, now)
    [] OTHER -> MixedValidator(fieldName, rules, value)

(***************************************************************************)
(* The rule documents.                                                     *)
(***************************************************************************)
Rule(attrs) == [a \in Attrs |-> IF a \in DOMAIN attrs THEN Some(attrs[a]) ELSE Absent]

Ref(name) == <<"#/definitions/", name>>

\* validationDefinitions.json
validationDefinitions ==
  [n \in {"nonEmptyString", "accountNumber", "positiveAmount", "validDate"} |->
    CASE n = "nonEmptyString" ->
           Rule([type |-> "string", required |-> TRUE, minLength |-> 1,
                 errorMessageRequired |-> <<"This field cannot be empty.">>,
                 errorMessageMinLength |->
                   <<"This field requires at least ", "{minLength}", " character(s).">>])
      [] n = "accountNumber" ->
           Rule([type |-> "string", required |-> TRUE,
                 pattern |-> <<"^[0-9]{8,17}$">>,
                 errorMessageRequired |-> <<"Account number is required.">>,
                 errorMessagePattern |->
                   <<"Account number must be between 8 and 17 digits.">>])
      [] n = "positiveAmount" ->
           Rule([type |-> "number", required |-> TRUE,
                 minValue |-> 1, maxValue |-> 100000000,
                 errorMessageRequired |-> <<"Amount is required.">>,
                 errorMessageType |-> <<"Amount must be a valid number.">>,
                 errorMessageMinValue |-> <<"Amount must be greater than $0.00.">>,
                 errorMessageMaxValue |->
                   <<"Amount cannot exceed $", "{maxValue}", ".">>])
      [] n = "validDate" ->
           Rule([type |-> "date", required |-> TRUE,
                 customRule |-> "noWeekendOrHoliday", minDate |-> "today",
                 errorMessageRequired |-> <<"Transfer date is required.">>,
                 errorMessageType |-> <<"Please enter a valid date.">>,
                 errorMessageMinDate |-> <<"Transfer date cannot be in the past.">>,
                 errorMessageCustomRule |->
                   <<"Transfer date cannot be a weekend or public holiday.">>])]

Field(name, rule) == [name |-> name, rule |-> rule]

beneficiaryName ==
  Field(<<"b","e","n","e","f","i","c","i","a","r","y","N","a","m","e">>,
        Rule([ref |-> Ref("nonEmptyString"), maxLength |-> 100,
              errorMessageMaxLength |->
                <<"Beneficiary name cannot exceed ", "{maxLength}", " characters.">>]))

beneficiaryAccountNumber ==
  Field(<<"b","e","n","e","f","i","c","i","a","r","y","A","c","c","o","u","n","t",
          "N","u","m","b","e","r">>,
        Rule([ref |-> Ref("accountNumber")]))

routingNumber ==
  Field(<<"r","o","u","t","i","n","g","N","u","m","b","e","r">>,
        Rule([type |-> "string", required |-> TRUE, pattern |-> <<"^[0-9]{9}$">>,
              errorMessageRequired |-> <<"Routing number is required.">>,
              errorMessagePattern |-> <<"Routing number must be exactly 9 digits.">>]))

amount ==
  Field(<<"a","m","o","u","n","t">>, Rule([ref |-> Ref("positiveAmount")]))

currency ==
  Field(<<"c","u","r","r","e","n","c","y">>,
        Rule([type |-> "string", required |-> TRUE,
              allowedValues |-> << <<"U","S","D">>, <<"C","A","D">>,
                                   <<"E","U","R">>, <<"G","B","P">> >>,
              errorMessageRequired |-> <<"Currency is required.">>,
              errorMessageAllowedValues |->
                <<"Invalid currency. Allowed: ", "{allowedValues}", ".">>]))

transferDate ==
  Field(<<"t","r","a","n","s","f","e","r","D","a","t","e">>,
        Rule([ref |-> Ref("validDate")]))

memo ==
  Field(<<"m","e","m","o">>,
        Rule([type |-> "string", required |-> FALSE, maxLength |-> 140,
              errorMessageMaxLength |->
                <<"Memo cannot exceed ", "{maxLength}", " characters.">>]))

\* the document fetchFormSpecificConfigFromDB resolves with
mockWireConfig ==
  <<beneficiaryName, beneficiaryAccountNumber, routingNumber, amount, currency,
    transferDate, memo>>

(***************************************************************************)
(* The documents, definitions and candidate values of the bounded check.   *)
(***************************************************************************)
\* a field whose $ref names no definition
orphan ==
  Field(<<"o","r","p","h","a","n">>, Rule([ref |-> Ref("doesNotExist")]))

FieldMenu == {beneficiaryName, beneficiaryAccountNumber, transferDate, orphan}

\* documents of up to MaxFields distinct fields of the menu, in any order
MenuDocuments ==
  UNION {{d \in [1..n -> FieldMenu] : \A i, j \in 1..n : i # j => d[i] # d[j]}
         : n \in 1..MaxFields}

\* optional attribute drawn from a set of values, or not set
Opt(values) == {Absent} \cup {Some(v) : v \in values}

Templates(on) ==
  IF on
    THEN [errorMessageRequired |-> Some(<<"required!">>),
          errorMessageType |-> Some(<<"wrong type">>),
          errorMessageMinLength |-> Some(<<"at least ", "{minLength}">>),
          errorMessageMaxLength |->
            Some(<<"{maxLength}", " at most, not more than ", "{maxLength}">>),
          errorMessagePattern |-> Some(<<"bad format">>),
          errorMessageAllowedValues |-> Some(<<"only ", "{allowedValues}">>),
          errorMessageMinValue |-> Some(<<"at least ", "{minValue}">>),
          errorMessageMaxValue |-> Some(<<"at most ", "{maxValue}">>),
          errorMessageMinDate |-> Some(<<"too early">>),
          errorMessageCustomRule |-> Some(<<"closed that day">>)]
    ELSE [a \in {} |-> Absent]

WithTemplates(rule, on) ==
  [a \in Attrs |-> IF a \in DOMAIN Templates(on) THEN Templates(on)[a] ELSE rule[a]]

StringRules ==
  {WithTemplates([EmptyRule EXCEPT !["type"] = Some("string"),
                                   !["required"] = req,
                                   !["minLength"] = minL,
                                   !["maxLength"] = maxL,
                                   !["pattern"] = pat,
                                   !["allowedValues"] = allowed], on) :
     req \in Opt(BOOLEAN), minL \in Opt({2}), maxL \in Opt({2}),
     pat \in Opt({<<"^[0-9]{2}$">>}),
     allowed \in Opt({<< <<"1","1">>, <<"A">>, <<"A","A","A">> >>}),
     on \in BOOLEAN}

NumberRules ==
  {WithTemplates([EmptyRule EXCEPT !["type"] = Some("number"),
                                   !["required"] = req,
                                   !["minValue"] = minV,
                                   !["maxValue"] = maxV], on) :
     req \in Opt(BOOLEAN), minV \in Opt({1, 1100}), maxV \in Opt({100, 100000000}),
     on \in BOOLEAN}

DateRules ==
  {WithTemplates([EmptyRule EXCEPT !["type"] = Some("date"),
                                   !["required"] = req,
                                   !["minDate"] = minD,
                                   !["customRule"] = custom], on) :
     req \in Opt(BOOLEAN), minD \in Opt({"today"}),
     custom \in Opt({"noWeekendOrHoliday"}), on \in BOOLEAN}

\* rules of a type the compiler does not support, with or without the
\* constraints of the other types
OtherRules ==
  {[(IF loaded
       THEN [EmptyRule EXCEPT !["minLength"] = Some(2),
                              !["pattern"] = Some(<<"^[0-9]{2}$">>),
                              !["allowedValues"] = Some(<< <<"A">> >>),
                              !["minValue"] = Some(1100),
                              !["minDate"] = Some("today"),
                              !["customRule"] = Some("noWeekendOrHoliday")]
       ELSE EmptyRule) EXCEPT !["type"] = type, !["required"] = req] :
     type \in Opt({"boolean"}), req \in Opt(BOOLEAN), loaded \in BOOLEAN}

\* string rules whose pattern is not a regular expression (the bracket is
\* never closed)
BadPatternRules ==
  {[EmptyRule EXCEPT !["type"] = Some("string"),
                     !["required"] = req,
                     !["minLength"] = minL,
                     !["maxLength"] = maxL,
                     !["pattern"] = Some(<<"[0-9">>),
                     !["allowedValues"] = allowed] :
     req \in Opt({TRUE}), minL \in Opt({2}), maxL \in Opt({2}),
     allowed \in Opt({<< <<"1","1">>, <<"A">>, <<"A","A","A">> >>})}

\* field rules that override attributes of the definition they reference
OverrideRules ==
  {Rule([ref |-> Ref("accountNumber"), required |-> FALSE]),
   Rule([ref |-> Ref("accountNumber"), maxLength |-> 100,
         errorMessageRequired |-> <<"required!">>]),
   Rule([ref |-> Ref("nonEmptyString"), minLength |-> 2, type |-> "string"]),
   Rule([ref |-> Ref("positiveAmount"), maxValue |-> 100]),
   Rule([ref |-> Ref("validDate"), customRule |-> "none"])}

\* documents of one field
SingleDocuments ==
  {<<Field(memo.name, r)>> :
     r \in StringRules \cup BadPatternRules \cup OtherRules \cup OverrideRules}
  \cup {<<Field(amount.name, r)>> : r \in NumberRules}
  \cup {<<Field(transferDate.name, r)>> : r \in DateRules}

\* a routing number whose pattern is not a regular expression, in a
\* document between a field that is compiled and one that is skipped
badRouting ==
  Field(routingNumber.name,
        Rule([type |-> "string", required |-> TRUE, pattern |-> <<"[0-9">>,
              errorMessagePattern |-> <<"Routing number must be 9 digits.">>]))

badPatternDocument == <<beneficiaryName, badRouting, orphan, memo>>

\* the definitions a document is compiled with: all of them, or all but one
DefinitionSets ==
  {validationDefinitions,
   [n \in DOMAIN validationDefinitions \ {"accountNumber"} |-> validationDefinitions[n]]}

Setups ==
  (MenuDocuments \X DefinitionSets)
  \cup ((SingleDocuments \cup {mockWireConfig, badPatternDocument})
        \X {validationDefinitions})

Alphabet == {" ", "1", "A"}

ShortStrings == UNION {[1..n -> Alphabet] : n \in 0..MaxLen}

LongStrings ==
  {<<"0","2","1","0","0","0","0","2">>, <<"0","2","1","0","0","0","0","2","1">>,
   <<"U","S","D">>, <<" ","A","A","A"," ">>, Repeat("A", 100), Repeat("A", 101),
   Repeat("A", 141)}

DateStrings ==
  {<<"2","0","2","5","-","0","7","-","0","3">>,
   <<"2","0","2","5","-","0","7","-","0","4">>,
   <<"2","0","2","5","-","0","7","-","0","5">>,
   <<"2","0","2","5","-","0","7","-","0","6">>,
   <<"2","0","2","5","-","0","7","-","0","7">>,
   <<"2","0","2","6","-","0","1","-","0","1">>,
   <<"2","0","2","5","-","0","2","-","3","0">>}

Candidates ==
  {Undefined, Null, Obj, Bool(TRUE)}
  \cup {Str(s) : s \in ShortStrings \cup LongStrings \cup DateStrings}
  \cup {Num(n) : n \in {0, 1, 150, 1100, 100000000, 100000001}}

\* the first value of the clock: Thursday 2025-07-03
StartDay == DaysFromCivil(2025, 7, 3)

(***************************************************************************)
(* The loader (validationConfigLoader.ts) and the form's state.            *)
(***************************************************************************)
\* The keys a rule document is asked for.  getWireTransferValidationSetup
\* asks for wireTransferRequest; the loader the source shows for a second
\* form asks for loanApplication, which the supplier does not know.
FormKeys == {"wireTransferRequest", "loanApplication"}

\* no call of fetchFormSpecificConfigFromDB yet
NoFetch ==
  [state |-> "none", formKey |-> "", timer |-> "none", settled |-> 0,
   value |-> Absent, error |-> Absent]

\* no call of the loader yet
NoSetup == [state |-> "none", fetches |-> 0, value |-> Absent, error |-> Absent]

\* new Error(`No mock validation config found for key: ${formKey}`)
NoConfigError(formKey) == <<"No mock validation config found for key: ", formKey>>

\* what the form shows: the returns of WireTransferForm, in their order;
\* schema holds the form's validationSchema
Screen ==
  IF isLoadingConfig THEN "loading"
  ELSE IF NonEmpty(configError) THEN "error"
  ELSE IF ~Has(schema) THEN "preparing"
  ELSE "form"

(***************************************************************************)
(* The state machine.                                                      *)
(***************************************************************************)
Init ==
  /\ \E setup \in Setups : configSection = setup[1] /\ definitions = setup[2]
  /\ schema = Absent
  /\ today = StartDay
  /\ result = Absent
  /\ earlier = Absent
  /\ fetch = NoFetch
  /\ validationSetup = NoSetup
  /\ load = [pc |-> "idle", loads |-> 0, compiles |-> 0]
  /\ isLoadingConfig = TRUE
  /\ configError = Absent
  /\ formConfigSection = Absent

\* the kept call, if any, once the document is compiled again
Recompiled(kept) ==
  IF Has(kept) THEN Some([Val(kept) EXCEPT !.recompiled = TRUE]) ELSE kept

\* a compiler that leaves out the fields whose pattern does not compile
BuildOmitsBadPattern ==
  /\ schema' = Some(SelectSeq(buildYupSchema(configSection, definitions),
                              LAMBDA f : ~(NonEmpty(f.rules["pattern"])
                                           /\ ~RegExpValid(Val(f.rules["pattern"])))))
  /\ result' = Absent
  /\ earlier' = Recompiled(earlier)
  /\ configSection' = SectionAfterBuild(configSection, definitions)
  /\ definitions' = DefinitionsAfterBuild(configSection, definitions)
  /\ UNCHANGED <<today, formVars>>

\* const schema = buildYupSchema(configSection, definitions)
Build ==
  /\ schema' = Some(buildYupSchema(configSection, definitions))
  /\ result' = Absent
  /\ earlier' = Recompiled(earlier)
  /\ configSection' = SectionAfterBuild(configSection, definitions)
  /\ definitions' = DefinitionsAfterBuild(configSection, definitions)
  /\ UNCHANGED <<today, formVars>>

\* a compiled validator is called with a candidate value; result holds
\* the outcome until the caller has taken it
Validate ==
  /\ Has(schema)
  /\ result = Absent
  /\ \E i \in 1..Len(Val(schema)), value \in Candidates :
       result' = Some([field |-> Val(schema)[i].name,
                       rules |-> Val(schema)[i].rules,
                       value |-> value,
                       now |-> today,
                       outcome |-> Validator(Val(schema)[i].name,
                                             Val(schema)[i].rules, value, today)])
  /\ UNCHANGED <<configSection, definitions, schema, today, earlier, formVars>>

\* the call returns: the caller takes the outcome
Return ==
  /\ Has(result)
  /\ result' = Absent
  /\ UNCHANGED <<configSection, definitions, schema, today, earlier, formVars>>

\* midnight passes
Tick ==
  /\ today < StartDay + MaxTicks
  /\ today' = today + 1
  /\ UNCHANGED <<configSection, definitions, schema, result, earlier, formVars>>

Next == Build \/ Validate \/ Return \/ Tick

Spec == Init /\ [][Next]_vars

\* the caller takes the outcome and keeps the call, to make it again
Keep ==
  /\ Has(result)
  /\ earlier = Absent
  /\ earlier' = Some([call |-> Val(result), recompiled |-> FALSE])
  /\ result' = Absent
  /\ UNCHANGED <<configSection, definitions, schema, today, formVars>>

\* the validator the mapping now holds for the field of the kept call is
\* called with the value of the kept call
ValidateAgain ==
  /\ Has(schema)
  /\ Has(earlier)
  /\ result = Absent
  /\ \E i \in 1..Len(Val(schema)) :
       /\ Val(schema)[i].name = Val(earlier).call.field
       /\ result' = Some([field |-> Val(schema)[i].name,
                          rules |-> Val(schema)[i].rules,
                          value |-> Val(earlier).call.value,
                          now |-> today,
                          outcome |-> Validator(Val(schema)[i].name,
                                                Val(schema)[i].rules,
                                                Val(earlier).call.value, today)])
  /\ UNCHANGED <<configSection, definitions, schema, today, earlier, formVars>>

\* the documents of one date field and the document of the wire transfer
\* form, which has fields of every supported kind
InitAgain ==
  /\ Init
  /\ \/ configSection = mockWireConfig
     \/ Len(configSection) = 1 /\ configSection[1].rule["type"] = Some("date")

\* calls made twice: any calls, then a call whose outcome is kept, then
\* (after recompilations and midnights, if any) the same call again
NextAgain ==
  \/ Build
  \/ (earlier = Absent /\ Validate)
  \/ Keep
  \/ ValidateAgain
  \/ Return
  \/ Tick

SpecAgain == InitAgain /\ [][NextAgain]_vars

\* The effect of WireTransferForm runs after the first render and calls
\* loadValidation, which runs up to its await: it sets the loading flag,
\* clears the error and calls the loader, which calls
\* fetchFormSpecificConfigFromDB(formKey), which starts the timer of one
\* second and returns its pending promise.
Mount ==
  /\ load.pc = "idle"
  /\ \E formKey \in FormKeys :
       fetch' = [NoFetch EXCEPT !.state = "pending", !.formKey = formKey,
                                !.timer = "armed"]
  /\ validationSetup' = [NoSetup EXCEPT !.state = "pending",
                                        !.fetches = validationSetup.fetches + 1]
  /\ load' = [load EXCEPT !.pc = "await", !.loads = @ + 1]
  /\ isLoadingConfig' = TRUE
  /\ configError' = Absent
  /\ UNCHANGED <<configSection, definitions, schema, today, result, earlier,
                 formConfigSection>>

\* the callback of setTimeout: resolve(mockWireConfig) for the key of the
\* wire transfer form, reject(new Error(...)) for any other key
TimerFires ==
  /\ fetch.timer = "armed"
  /\ fetch' =
       IF fetch.formKey = "wireTransferRequest"
         THEN [fetch EXCEPT !.timer = "fired", !.settled = @ + 1,
                            !.state = "resolved", !.value = Some(mockWireConfig)]
         ELSE [fetch EXCEPT !.timer = "fired", !.settled = @ + 1,
                            !.state = "rejected",
                            !.error = Some(NoConfigError(fetch.formKey))]
  /\ UNCHANGED <<configSection, definitions, schema, today, result, earlier,
                 validationSetup, load, isLoadingConfig, configError,
                 formConfigSection>>

\* a loader whose catch block throws an error of its own
SetupContinuesNewError ==
  /\ validationSetup.state = "pending"
  /\ fetch.state \in {"resolved", "rejected"}
  /\ validationSetup' =
       IF fetch.state = "resolved"
         THEN [validationSetup EXCEPT
                 !.state = "fulfilled",
                 !.value = Some([configSection |-> Val(fetch.value),
                                 definitions |-> validationDefinitions])]
         ELSE [validationSetup EXCEPT
                 !.state = "rejected",
                 !.error = Some(<<"Error fetching wire transfer validation setup">>)]
  /\ UNCHANGED <<configSection, definitions, schema, today, result, earlier,
                 fetch, load, isLoadingConfig, configError, formConfigSection>>

\* getWireTransferValidationSetup after its await: it returns the document
\* with the definitions, or its catch block logs the error and throws it
\* again
SetupContinues ==
  /\ validationSetup.state = "pending"
  /\ fetch.state \in {"resolved", "rejected"}
  /\ validationSetup' =
       IF fetch.state = "resolved"
         THEN [validationSetup EXCEPT
                 !.state = "fulfilled",
                 !.value = Some([configSection |-> Val(fetch.value),
                                 definitions |-> validationDefinitions])]
         ELSE [validationSetup EXCEPT !.state = "rejected", !.error = fetch.error]
  /\ UNCHANGED <<configSection, definitions, schema, today, result, earlier,
                 fetch, load, isLoadingConfig, configError, formConfigSection>>

\* a loadValidation that compiles the document and drops the result
CompileWithoutSetSchema ==
  /\ load.pc = "await"
  /\ validationSetup.state = "fulfilled"
  /\ load' = [load EXCEPT !.pc = "setSection", !.compiles = @ + 1]
  /\ UNCHANGED <<configSection, definitions, schema, today, result, earlier,
                 fetch, validationSetup, isLoadingConfig, configError,
                 formConfigSection>>

\* loadValidation after its await, the loader having returned:
\* const schema = buildYupSchema(configSection, definitions);
\* setValidationSchema(schema)
Compile ==
  /\ load.pc = "await"
  /\ validationSetup.state = "fulfilled"
  /\ LET loaded == Val(validationSetup.value)
     IN /\ schema' = Some(buildYupSchema(loaded.configSection, loaded.definitions))
        /\ configSection' = SectionAfterBuild(loaded.configSection, loaded.definitions)
        /\ definitions' = DefinitionsAfterBuild(loaded.configSection, loaded.definitions)
  /\ load' = [load EXCEPT !.pc = "setSection", !.compiles = @ + 1]
  /\ UNCHANGED <<today, result, earlier, fetch, validationSetup, isLoadingConfig,
                 configError, formConfigSection>>

\* setFormConfigSection(configSection)
SetSection ==
  /\ load.pc = "setSection"
  /\ formConfigSection' = Some(configSection)
  /\ load' = [load EXCEPT !.pc = "finally"]
  /\ UNCHANGED <<configSection, definitions, schema, today, result, earlier,
                 fetch, validationSetup, isLoadingConfig, configError>>

\* loadValidation after its await, the loader having thrown:
\* setConfigError(error.message || "Could not load form configuration.")
Catch ==
  /\ load.pc = "await"
  /\ validationSetup.state = "rejected"
  /\ configError' = Some(OrElse(validationSetup.error,
                                <<"Could not load form configuration.">>))
  /\ load' = [load EXCEPT !.pc = "finally"]
  /\ UNCHANGED <<configSection, definitions, schema, today, result, earlier,
                 fetch, validationSetup, isLoadingConfig, formConfigSection>>

\* finally { setIsLoadingConfig(false) }
Finally ==
  /\ load.pc = "finally"
  /\ isLoadingConfig' = FALSE
  /\ load' = [load EXCEPT !.pc = "done"]
  /\ UNCHANGED <<configSection, definitions, schema, today, result, earlier,
                 fetch, validationSetup, configError, formConfigSection>>

\* the form before its first render's effect, with the document and the
\* definitions the loader hands out
InitForm ==
  /\ Init
  /\ configSection = mockWireConfig
  /\ definitions = validationDefinitions

\* the form loads its rules; once it shows the fields, their validators
\* are called
NextForm ==
  \/ Mount
  \/ TimerFires
  \/ SetupContinues
  \/ Compile
  \/ SetSection
  \/ Catch
  \/ Finally
  \/ (Screen = "form" /\ Validate)
  \/ Return
  \/ Tick

\* The event loop runs a timer that is due and the continuation of an
\* await whose promise is settled.
SpecForm ==
  /\ InitForm
  /\ [][NextForm]_vars
  /\ WF_vars(TimerFires)
  /\ WF_vars(SetupContinues)
  /\ WF_vars(Compile)
  /\ WF_vars(SetSection)
  /\ WF_vars(Catch)
  /\ WF_vars(Finally)

(***************************************************************************)
(* Properties.                                                             *)
(***************************************************************************)
\* the raw rule of the document's field with this name
RawRule(name) ==
  configSection[CHOOSE i \in 1..Len(configSection) : configSection[i].name = name].rule

\* the field rule's $ref names a definition that is not in definitions
NamesMissingDefinition(rawRule) ==
  NonEmpty(rawRule["ref"]) /\ RefPath(Val(rawRule["ref"])) \notin DOMAIN definitions

\* C1: once the document is compiled, the compiled mapping holds, in the
\* order of the document, exactly the fields whose $ref does not name a
\* missing definition; every other field is there, whether it stands
\* before or after a skipped one.
C1_OmitsExactlyMissingRefs ==
  Has(schema) =>
    LET kept == SelectSeq(configSection, LAMBDA f : ~NamesMissingDefinition(f.rule))
    IN /\ Len(Val(schema)) = Len(kept)
       /\ \A i \in 1..Len(kept) : Val(schema)[i].name = kept[i].name

\* a compiled document whose middle field is skipped and whose first and
\* last fields are compiled
C1_Witness ==
  /\ Has(schema)
  /\ Len(configSection) = 3
  /\ configSection[2] = orphan
  /\ Len(Val(schema)) = 2
  /\ Val(schema)[1].name = configSection[1].name
  /\ Val(schema)[2].name = configSection[3].name

\* C2: a compiled field whose rule references an existing definition D is
\* compiled from the rule that has, attribute by attribute, the field
\* rule's value where the field rule sets it and D's value otherwise, and
\* no $ref; a field that references accountNumber enforces its 8 to 17
\* digit pattern, also when the field adds maxLength, which is then
\* enforced as well.
C2_MergedRule ==
  /\ Has(schema) =>
       \A i \in 1..Len(Val(schema)) :
         LET raw == RawRule(Val(schema)[i].name)
             got == Val(schema)[i].rules
         IN NonEmpty(raw["ref"]) =>
              LET D == definitions[RefPath(Val(raw["ref"]))]
              IN /\ got["ref"] = Absent
                 /\ \A a \in Attrs \ {"ref"} :
                      got[a] = IF Has(raw[a]) THEN raw[a] ELSE D[a]
  /\ Has(result) =>
       LET r == Val(result)
           raw == RawRule(r.field)
           text == Trim(r.value.s)
       IN (/\ raw["ref"] = Some(Ref("accountNumber"))
           /\ r.value.t = "string" /\ text # <<>>) =>
            /\ r.outcome.ok <=>
                 /\ AllDigits(text) /\ Len(text) >= 8 /\ Len(text) <= 17
                 /\ Has(raw["maxLength"]) => Len(text) <= Val(raw["maxLength"])
            /\ (Has(raw["maxLength"]) /\ Len(text) > Val(raw["maxLength"])) =>
                 r.outcome.kind = "maxLength"
            /\ (~r.outcome.ok /\ r.outcome.kind # "maxLength") =>
                 r.outcome = Fail("pattern",
                                  <<"Account number must be between 8 and 17 digits.">>)

\* the field that references accountNumber and adds maxLength 100 rejects
\* a text of 101 letters for its length
C2_Witness ==
  /\ Has(result)
  /\ RawRule(Val(result).field)["ref"] = Some(Ref("accountNumber"))
  /\ RawRule(Val(result).field)["maxLength"] = Some(100)
  /\ Val(result).rules["pattern"] = Some(<<"^[0-9]{8,17}$">>)
  /\ Val(result).rules["ref"] = Absent
  /\ Val(result).value = Str(Repeat("A", 101))
  /\ Val(result).outcome.kind = "maxLength"

\* the value is a text of blanks only (at least one)
WhitespaceOnly(value) ==
  value.t = "string" /\ value.s # <<>> /\ \A i \in 1..Len(value.s) : value.s[i] = " "

\* C3: a string field whose resolved rule has required = true answers "",
\* a whitespace-only text, null and undefined with the required failure,
\* whose message is the rule's errorMessageRequired or, without one, the
\* field's name in spaced lower case followed by " is required", whatever
\* other constraints the rule has.
C3_RequiredStringAbsent ==
  Has(result) =>
    LET r == Val(result)
    IN (/\ r.rules["type"] = Some("string")
        /\ r.rules["required"] = Some(TRUE)
        /\ \/ r.value \in {Str(<<>>), Null, Undefined}
           \/ WhitespaceOnly(r.value)) =>
         /\ r.outcome.ok = FALSE
         /\ r.outcome.kind = "required"
         /\ r.outcome.message =
              IF NonEmpty(r.rules["errorMessageRequired"])
                THEN Val(r.rules["errorMessageRequired"])
                ELSE SpacedLower(r.field) \o <<" is required">>

\* a required string field with length, pattern and allowedValues
\* constraints and no message of its own rejects a whitespace-only text
\* with the generated message
C3_Witness ==
  /\ Has(result)
  /\ Val(result).rules["type"] = Some("string")
  /\ Val(result).rules["required"] = Some(TRUE)
  /\ Has(Val(result).rules["minLength"])
  /\ Has(Val(result).rules["pattern"])
  /\ Has(Val(result).rules["allowedValues"])
  /\ Val(result).value = Str(<<" ", " ">>)
  /\ Val(result).outcome = Fail("required", <<"m", "e", "m", "o", " is required">>)

\* C4: a field whose resolved rule has required false or unset, of any
\* type, answers an absent input (null, undefined, "", and for a string
\* field a whitespace-only text) with success, whatever other constraints
\* the rule carries.
C4_OptionalAbsentPasses ==
  Has(result) =>
    LET r == Val(result)
    IN (/\ r.rules["required"] \in {Absent, Some(FALSE)}
        /\ \/ r.value \in {Str(<<>>), Null, Undefined}
           \/ r.rules["type"] = Some("string") /\ WhitespaceOnly(r.value)) =>
         r.outcome = Pass

\* an optional date field with minDate and customRule accepts ""
C4_Witness ==
  /\ Has(result)
  /\ Val(result).rules["type"] = Some("date")
  /\ Val(result).rules["required"] \in {Absent, Some(FALSE)}
  /\ Val(result).rules["minDate"] = Some("today")
  /\ Val(result).rules["customRule"] = Some("noWeekendOrHoliday")
  /\ Val(result).value = Str(<<>>)
  /\ Val(result).outcome = Pass

\* the outcome for a present text when the checks are applied in the order
\* type, minLength, maxLength, pattern, allowedValues and the first one
\* violated is reported
FirstFailureInDeclaredOrder(rules, cast) ==
  IF cast.t # "string"
    THEN Fail("type", OrElse(rules["errorMessageType"],
                             <<"Invalid value, must be a string.">>))
  ELSE IF Has(rules["minLength"]) /\ Len(cast.s) < Val(rules["minLength"])
    THEN Fail("minLength",
              Render(rules, "errorMessageMinLength",
                     <<"Minimum length is ", "{minLength}">>,
                     "{minLength}", NatToStr(Val(rules["minLength"]))))
  ELSE IF Has(rules["maxLength"]) /\ Len(cast.s) > Val(rules["maxLength"])
    THEN Fail("maxLength",
              Render(rules, "errorMessageMaxLength",
                     <<"Maximum length is ", "{maxLength}">>,
                     "{maxLength}", NatToStr(Val(rules["maxLength"]))))
  ELSE IF NonEmpty(rules["pattern"]) /\ RegExpValid(Val(rules["pattern"]))
          /\ ~Matches(Val(rules["pattern"]), cast.s)
    THEN Fail("pattern", OrElse(rules["errorMessagePattern"], <<"Invalid format">>))
  ELSE IF Has(rules["allowedValues"])
          /\ \A i \in 1..Len(Val(rules["allowedValues"])) :
               Val(rules["allowedValues"])[i] # cast.s
    THEN Fail("allowedValues",
              Render(rules, "errorMessageAllowedValues",
                     <<"Must be one of: ", "{allowedValues}">>,
                     "{allowedValues}", Join(Val(rules["allowedValues"]))))
  ELSE Pass

\* C5: for a string field and a present text value, the failure reported
\* is that of the first violated check in the order type, minLength,
\* maxLength, pattern, allowedValues, each evaluated on the trimmed value;
\* a value that violates a length or pattern constraint and allowedValues
\* is reported as the length or pattern failure.
C5_FirstFailureInDeclaredOrder ==
  Has(result) =>
    LET r == Val(result)
    IN (/\ r.rules["type"] = Some("string")
        /\ r.value.t = "string"
        /\ Trim(r.value.s) # <<>>) =>
         r.outcome = FirstFailureInDeclaredOrder(r.rules, Str(Trim(r.value.s)))

\* C6: for a date field with minDate "today" and customRule
\* "noWeekendOrHoliday", a validly parsed date earlier than today that is
\* also a weekend or a holiday yields the minDate failure, and a date equal
\* to today is not rejected for minDate.
C6_MinDateBeforeCustomRule ==
  Has(result) =>
    LET r == Val(result)
        parsed == ParseISO(r.value.s)
    IN (/\ r.rules["type"] = Some("date")
        /\ r.rules["minDate"] = Some("today")
        /\ r.rules["customRule"] = Some("noWeekendOrHoliday")
        /\ r.value.t = "string" /\ r.value.s # <<>>
        /\ parsed.valid) =>
         /\ (parsed.day < r.now /\ (isWeekend(parsed) \/ isPublicHoliday(parsed))) =>
              r.outcome = Fail("minDate",
                               OrElse(r.rules["errorMessageMinDate"],
                                      <<"Date cannot be in the past.">>))
         /\ parsed.day = r.now => r.outcome.kind # "minDate"

\* C7: for a string field, every present value that is not a string yields
\* the type failure.
C7_NonStringIsTypeFailure ==
  Has(result) =>
    LET r == Val(result)
    IN (/\ r.rules["type"] = Some("string")
        /\ r.value.t \notin {"string", "null", "undefined"}) =>
         r.outcome.kind = "type"

\* C8 as first stated: for a number field with minValue m and maxValue M,
\* a present value that coerces to a finite number v passes iff
\* m <= v <= M, a value below m fails with the minValue failure and a
\* value above M fails with the maxValue failure.
C8_BoundsAsStated ==
  Has(result) =>
    LET r == Val(result)
        v == NumberCast(r.value)
    IN (/\ r.rules["type"] = Some("number")
        /\ ~OtherAbsent(r.value) /\ ~v.nan
        /\ Has(r.rules["minValue"]) /\ Has(r.rules["maxValue"])) =>
         LET m == Val(r.rules["minValue"])
             M == Val(r.rules["maxValue"])
         IN /\ r.outcome.ok <=> (m <= v.n /\ v.n <= M)
            /\ v.n < m => r.outcome.kind = "minValue"
            /\ v.n > M => r.outcome.kind = "maxValue"

\* C8: for a number field with minValue m and maxValue M, a present value
\* that coerces to a finite number v passes iff m <= v <= M (both bounds
\* inclusive); a value below m fails with the minValue failure, and a
\* value above M that is not below m fails with the maxValue failure.
\* With m = 0.01 and M = 1000000: 0.00 fails minValue, 1000000 passes,
\* 1000000.01 fails maxValue.
C8_NumericBounds ==
  Has(result) =>
    LET r == Val(result)
        v == NumberCast(r.value)
    IN (/\ r.rules["type"] = Some("number")
        /\ ~OtherAbsent(r.value) /\ ~v.nan
        /\ Has(r.rules["minValue"]) /\ Has(r.rules["maxValue"])) =>
         LET m == Val(r.rules["minValue"])
             M == Val(r.rules["maxValue"])
         IN /\ r.outcome.ok <=> (m <= v.n /\ v.n <= M)
            /\ v.n < m => r.outcome.kind = "minValue"
            /\ (v.n > M /\ v.n >= m) => r.outcome.kind = "maxValue"
            /\ (m = 1 /\ M = 100000000) =>
                 /\ r.value = Num(0) => r.outcome.kind = "minValue"
                 /\ r.value = Num(1) => r.outcome = Pass
                 /\ r.value = Num(100000000) => r.outcome = Pass
                 /\ r.value = Num(100000001) => r.outcome.kind = "maxValue"

\* the amount field of the wire transfer document rejects 1000000.01
C8_Witness ==
  /\ Has(result)
  /\ Val(result).field = amount.name
  /\ Val(result).rules["minValue"] = Some(1)
  /\ Val(result).rules["maxValue"] = Some(100000000)
  /\ Val(result).value = Num(100000001)
  /\ Val(result).outcome = Fail("maxValue", <<"Amount cannot exceed $">>
                                            \o NumToString(100000000) \o <<".">>)

\* the holidays of the calendar, as civil dates
ListedHolidays ==
  {<<2025, 1, 1>>, <<2025, 1, 20>>, <<2025, 2, 17>>, <<2025, 5, 26>>,
   <<2025, 6, 19>>, <<2025, 7, 4>>, <<2025, 9, 1>>, <<2025, 10, 13>>,
   <<2025, 11, 11>>, <<2025, 11, 27>>, <<2025, 12, 25>>}

\* C9: for a date field and a validly parsed date that meets minDate, a
\* rule with customRule "noWeekendOrHoliday" fails with the customRule
\* failure exactly when the date is a Saturday, a Sunday or a listed
\* holiday and passes otherwise; a rule without that customRule passes.
C9_WeekendOrHoliday ==
  Has(result) =>
    LET r == Val(result)
        parsed == ParseISO(r.value.s)
        closed == \/ GetDay(parsed.day) \in {0, 6}
                  \/ CivilFromDays(parsed.day) \in ListedHolidays
    IN (/\ r.rules["type"] = Some("date")
        /\ r.value.t = "string" /\ r.value.s # <<>>
        /\ parsed.valid
        /\ r.rules["minDate"] = Some("today") => parsed.day >= r.now) =>
         IF r.rules["customRule"] = Some("noWeekendOrHoliday")
           THEN /\ closed =>
                     r.outcome = Fail("customRule",
                                      OrElse(r.rules["errorMessageCustomRule"],
                                             <<"Date cannot be a weekend or public holiday.">>))
                /\ ~closed => r.outcome = Pass
           ELSE r.outcome = Pass

\* Friday 2025-07-04, a holiday that is no weekend and not in the past,
\* is rejected by the custom rule
C9_Witness ==
  /\ Has(result)
  /\ Val(result).rules["type"] = Some("date")
  /\ Val(result).rules["minDate"] = Some("today")
  /\ Val(result).rules["customRule"] = Some("noWeekendOrHoliday")
  /\ Val(result).value = Str(<<"2","0","2","5","-","0","7","-","0","4">>)
  /\ Val(result).now <= DaysFromCivil(2025, 7, 4)
  /\ Val(result).outcome.kind = "customRule"

\* the template with every occurrence of the token replaced
RECURSIVE ReplaceAll(_, _, _)
ReplaceAll(template, token, replacement) ==
  IF template = <<>> THEN <<>>
  ELSE IF Head(template) = token
    THEN replacement \o ReplaceAll(Tail(template), token, replacement)
    ELSE <<Head(template)>> \o ReplaceAll(Tail(template), token, replacement)

\* C10: when a constraint with a placeholder fails, the message is the
\* rule's template for that constraint with every occurrence of its
\* placeholder replaced by the constraint's value (allowedValues joined
\* with ", ").
C10_EveryPlaceholderReplaced ==
  Has(result) =>
    LET r == Val(result)
        k == r.outcome.kind
        expect(attr, token, text) ==
          NonEmpty(r.rules[attr]) =>
            r.outcome.message = ReplaceAll(Val(r.rules[attr]), token, text)
    IN /\ k = "minLength" =>
            expect("errorMessageMinLength", "{minLength}",
                   NatToStr(Val(r.rules["minLength"])))
       /\ k = "maxLength" =>
            expect("errorMessageMaxLength", "{maxLength}",
                   NatToStr(Val(r.rules["maxLength"])))
       /\ k = "minValue" =>
            expect("errorMessageMinValue", "{minValue}",
                   NumToString(Val(r.rules["minValue"])))
       /\ k = "maxValue" =>
            expect("errorMessageMaxValue", "{maxValue}",
                   NumToString(Val(r.rules["maxValue"])))
       /\ k = "allowedValues" =>
            expect("errorMessageAllowedValues", "{allowedValues}",
                   Join(Val(r.rules["allowedValues"])))

\* the rule has a pattern that does not compile to a regular expression
HasBadPattern(rules) ==
  NonEmpty(rules["pattern"]) /\ ~RegExpValid(Val(rules["pattern"]))

\* C11: a string field whose pattern is not a valid regular expression is
\* compiled, and its validator answers every value as the same rule
\* without the pattern does: the required, allowedValues, minLength and
\* maxLength checks decide the outcome, no value fails for the pattern and
\* no outcome is an exception.
C11_BadPatternSkipped ==
  /\ Has(schema) =>
       \A i \in 1..Len(configSection) :
         (configSection[i].rule["type"] = Some("string")
          /\ HasBadPattern(configSection[i].rule)) =>
           \E j \in 1..Len(Val(schema)) : Val(schema)[j].name = configSection[i].name
  /\ Has(result) =>
       LET r == Val(result)
           text == Trim(r.value.s)
           missing == r.value.t \in {"undefined", "null"}
                      \/ (r.value.t = "string" /\ text = <<>>)
       IN (r.rules["type"] = Some("string") /\ HasBadPattern(r.rules)) =>
            /\ r.outcome =
                 Validator(r.field, [r.rules EXCEPT !["pattern"] = Absent],
                           r.value, r.now)
            /\ r.outcome.kind \in
                 {"", "required", "type", "allowedValues", "minLength", "maxLength"}
            /\ missing => (r.outcome.ok <=> r.rules["required"] # Some(TRUE))
            /\ (r.value.t = "string" /\ text # <<>>) =>
                 (r.outcome.ok <=>
                    /\ Has(r.rules["minLength"]) => Len(text) >= Val(r.rules["minLength"])
                    /\ Has(r.rules["maxLength"]) => Len(text) <= Val(r.rules["maxLength"])
                    /\ Has(r.rules["allowedValues"]) =>
                         \E k \in 1..Len(Val(r.rules["allowedValues"])) :
                           Val(r.rules["allowedValues"])[k] = text)

\* a field with a pattern that does not compile and with minLength 2
\* accepts the text AA, which no digit pattern would accept
C11_Witness ==
  /\ Has(result)
  /\ Val(result).rules["type"] = Some("string")
  /\ HasBadPattern(Val(result).rules)
  /\ Val(result).rules["minLength"] = Some(2)
  /\ Val(result).value = Str(<<"A", "A">>)
  /\ Val(result).outcome = Pass

\* C12 as stated: once the document is compiled, a field whose pattern is
\* not a valid regular expression is not in the compiled mapping, as a
\* field whose $ref names a missing definition is not, and every other
\* field of the document is.
C12_BadPatternOmitted ==
  Has(schema) =>
    \A i \in 1..Len(configSection) :
      (HasBadPattern(configSection[i].rule)
       \/ NamesMissingDefinition(configSection[i].rule)) <=>
        ~\E j \in 1..Len(Val(schema)) : Val(schema)[j].name = configSection[i].name

\* C12, amended: once the document is compiled, a field whose pattern is
\* not a valid regular expression is in the compiled mapping, with its
\* pattern still in its rule; the only fields left out are those whose
\* $ref names a missing definition.
C12_BadPatternKept ==
  Has(schema) =>
    \A i \in 1..Len(configSection) :
      LET here == {j \in 1..Len(Val(schema)) :
                     Val(schema)[j].name = configSection[i].name}
      IN /\ HasBadPattern(configSection[i].rule) =>
              \E j \in here :
                Val(schema)[j].rules["pattern"] = configSection[i].rule["pattern"]
         /\ here = {} <=> NamesMissingDefinition(configSection[i].rule)

\* the compiled document that holds the routing number with the bad
\* pattern, but not the field whose definition is missing
C12_Witness ==
  /\ Has(schema)
  /\ configSection = badPatternDocument
  /\ Len(Val(schema)) = 3
  /\ Val(schema)[2].name = badRouting.name
  /\ HasBadPattern(Val(schema)[2].rules)
  /\ Val(schema)[3].name = memo.name

\* the rule's kind is none of the three the compiler supports
UnsupportedKind(rules) ==
  rules["type"] \notin {Some("string"), Some("number"), Some("date")}

\* C13: the validator of a rule whose kind is not string, number or date
\* (the kind boolean, or no kind) fails exactly when the rule is required
\* and the value is "", null or undefined, and then with the required
\* failure; every other value passes, whatever other constraints the rule
\* carries.
C13_UnsupportedKindOnlyRequired ==
  Has(result) =>
    LET r == Val(result)
        absent == r.value \in {Str(<<>>), Null, Undefined}
    IN UnsupportedKind(r.rules) =>
         /\ r.outcome.ok <=> ~(r.rules["required"] = Some(TRUE) /\ absent)
         /\ ~r.outcome.ok =>
              /\ r.outcome.kind = "required"
              /\ r.outcome.message =
                   IF NonEmpty(r.rules["errorMessageRequired"])
                     THEN Val(r.rules["errorMessageRequired"])
                     ELSE SpacedLower(r.field) \o <<" is required">>

\* a required rule of kind boolean that also carries minLength 2, a digit
\* pattern and a whitelist accepts the one-letter text 1
C13_Witness ==
  /\ Has(result)
  /\ Val(result).rules["type"] = Some("boolean")
  /\ Val(result).rules["required"] = Some(TRUE)
  /\ Val(result).rules["minLength"] = Some(2)
  /\ Val(result).rules["allowedValues"] = Some(<< <<"A">> >>)
  /\ Val(result).value = Str(<<"1">>)
  /\ Val(result).outcome = Pass

\* C14 as stated: a call made again (same field, same value), after any
\* recompilation of the same document and at any later moment, has the
\* outcome of the kept call.
C14_SameOutcomeAgain ==
  (Has(earlier) /\ Has(result)) => Val(result).outcome = Val(earlier).call.outcome

\* the rule compares the value with the clock
ReadsClock(rules) == rules["type"] = Some("date") /\ rules["minDate"] = Some("today")

\* C14, amended: a call made again has the rule of the kept call, also
\* after the document is compiled again, and it has the outcome of the
\* kept call if it is made on the same day or if the rule is not a date
\* rule with minDate "today"; for such a rule the outcome can change at
\* midnight, and only from valid to the minDate failure.
C14_SameOutcomeSameDay ==
  (Has(earlier) /\ Has(result)) =>
    LET first == Val(earlier).call
        again == Val(result)
    IN /\ again.rules = first.rules
       /\ (again.now = first.now \/ ~ReadsClock(first.rules)) =>
            again.outcome = first.outcome
       /\ again.outcome # first.outcome =>
            /\ first.outcome = Pass
            /\ again.outcome.kind = "minDate"

\* a date that was valid on the day of the kept call fails, one midnight
\* and one recompilation later, for lying in the past
C14_Witness ==
  /\ Has(earlier) /\ Has(result)
  /\ Val(earlier).recompiled
  /\ ReadsClock(Val(result).rules)
  /\ Val(result).now > Val(earlier).call.now
  /\ Val(earlier).call.outcome = Pass
  /\ Val(result).outcome.kind = "minDate"

SettledAsSupplied ==
  /\ fetch.settled <= 1
  /\ validationSetup.fetches <= 1
  /\ fetch.state = "pending" => fetch.settled = 0
  /\ fetch.state = "resolved" =>
       /\ fetch.settled = 1
       /\ fetch.formKey = "wireTransferRequest"
       /\ fetch.value = Some(mockWireConfig)
       /\ fetch.error = Absent
  /\ fetch.state = "rejected" =>
       /\ fetch.settled = 1
       /\ fetch.formKey # "wireTransferRequest"
       /\ fetch.value = Absent
       /\ Has(fetch.error)
       /\ \E i \in 1..Len(Val(fetch.error)) : Val(fetch.error)[i] = fetch.formKey
  /\ validationSetup.state = "fulfilled" =>
       /\ fetch.state = "resolved"
       /\ validationSetup.value =
            Some([configSection |-> mockWireConfig,
                  definitions |-> validationDefinitions])
  /\ validationSetup.state = "rejected" =>
       /\ fetch.state = "rejected"
       /\ validationSetup.error = fetch.error
       /\ validationSetup.value = Absent

\* C16: every call of the supplier settles, and settles once: a pending
\* promise is eventually resolved or rejected and a settled one never
\* changes; the known key resolves with the rule document, which the
\* loader returns with the definitions; an unknown key rejects with an
\* error that names the key, which the loader throws again unchanged,
\* without a second fetch.
C16_SettlesExactlyOnce ==
  /\ []SettledAsSupplied
  /\ [][(fetch.state \in {"resolved", "rejected"} => fetch' = fetch)
        /\ (validationSetup.state \in {"fulfilled", "rejected"} =>
              validationSetup' = validationSetup)]_vars
  /\ (fetch.state = "pending") ~> (fetch.state \in {"resolved", "rejected"})
  /\ (validationSetup.state = "pending") ~>
       (validationSetup.state \in {"fulfilled", "rejected"})

\* the loader of the wire transfer form has returned the document and the
\* definitions, after one fetch that settled once
C16_Witness ==
  /\ fetch.formKey = "wireTransferRequest"
  /\ fetch.state = "resolved"
  /\ fetch.settled = 1
  /\ validationSetup.state = "fulfilled"
  /\ validationSetup.fetches = 1
  /\ Val(validationSetup.value).configSection = mockWireConfig
  /\ Val(validationSetup.value).definitions = validationDefinitions

\* what holds of the form in every state
LoadedOnceAndShown ==
  /\ load.loads <= 1
  /\ load.compiles <= 1
  /\ load.pc # "idle" => load.loads = 1
  /\ ~isLoadingConfig =>
       /\ load.pc = "done"
       /\ Has(schema) # NonEmpty(configError)
       /\ Has(schema) <=> load.compiles = 1
       /\ Has(schema) <=> Has(formConfigSection)
  /\ Screen = "form" =>
       /\ ~isLoadingConfig
       /\ configError = Absent
       /\ Has(schema)
  /\ load.pc = "done" => ~isLoadingConfig
  /\ (Has(validationSetup.error) /\ ~isLoadingConfig) => Screen = "error"

====
